---------------------------- MODULE Spec2Model ----------------------------
(***************************************************************************)
(* Model of mbuild/formats/hoomd_simulation.py (create_hoomd_simulation    *)
(* and its _init_hoomd_* helpers) and of mbuild/formats/hoomdxml.py        *)
(* (load_hoomdxml).                                                        *)
(*                                                                         *)
(* Python strings are sequences of one-character strings, ordered by code  *)
(* point as Python orders them.  Floating-point values are exact rationals *)
(* <<numerator, denominator>> in lowest terms; the two irrational factors  *)
(* of the code (2 ** (1/6), with Python 3's true division, and pi/180) are *)
(* kept symbolic.                                                          *)
(***************************************************************************)
EXTENDS Integers, Sequences, FiniteSets, TLC

VARIABLES
    structure,  \* the object passed to create_hoomd_simulation
    args,       \* ref_distance, ref_energy, mixing_rule of the call
    pc,         \* position inside create_hoomd_simulation
    hoomd,      \* state of the external engine: the calls received, in order
    outcome,    \* "running", "returned" or the exception that left the call
    xml         \* the load_hoomdxml call: file, argument, locals, position

vars == <<structure, args, pc, hoomd, outcome, xml>>

(***************************************************************************)
(* Bounds of the model.                                                    *)
(***************************************************************************)
MaxAtoms == 2        \* atoms of a structure of the non-bonded family
MaxEntities == 2     \* bonds / angles / dihedrals / adjusts of a structure
MaxNodes == 2        \* optional nodes present in a HOOMD XML file
MaxParticles == 2    \* lines of the <position> node of a HOOMD XML file

(***************************************************************************)
(* Python str: comparison, '-'.join, str.lower                             *)
(***************************************************************************)
Chars == {"-", "a", "b"}

Ord(c) == CASE c = "-" -> 45 [] c = "a" -> 97 [] c = "b" -> 98

\* s < t for Python strings: the first differing character decides, a proper
\* prefix is the smaller one.
RECURSIVE StrLess(_, _)
StrLess(s, t) ==
    IF t = <<>> THEN FALSE
    ELSE IF s = <<>> THEN TRUE
    ELSE IF Head(s) = Head(t) THEN StrLess(Tail(s), Tail(t))
    ELSE Ord(Head(s)) < Ord(Head(t))

StrLeq(s, t) == s = t \/ StrLess(s, t)

\* '-'.join(parts)
RECURSIVE Join(_)
Join(parts) ==
    IF parts = <<>> THEN <<>>
    ELSE IF Len(parts) = 1 THEN parts[1]
    ELSE parts[1] \o <<"-">> \o Join(Tail(parts))

\* the sort key mbuild.utils.sorting.natural_sort gives a type name: the
\* keys order the type names, distinct names have distinct keys
natural_sort(text) == text

KeyLeq(k1, k2) == StrLeq(k1, k2)

\* sorted([x, y], key=key): Python's sort is stable, x stays first on a tie
SortedPairByKey(x, y) ==
    IF KeyLeq(natural_sort(x), natural_sort(y)) THEN <<x, y>> ELSE <<y, x>>

\* sorted([x, y]) on plain strings
SortedPair(x, y) == IF StrLeq(x, y) THEN <<x, y>> ELSE <<y, x>>


\* str.lower() on the mixing-rule names of the model
MixingRules == {"lorentz", "Lorentz", "geometric"}

Lower(s) == IF s = "Lorentz" THEN "lorentz" ELSE s

(***************************************************************************)
(* Python float arithmetic, as exact rationals                             *)
(***************************************************************************)
RECURSIVE GCD(_, _)
GCD(a, b) == IF b = 0 THEN a ELSE GCD(b, a % b)

\* n / d in lowest terms (d > 0, n >= 0)
Frac(n, d) == LET g == GCD(n, d) IN <<n \div g, d \div g>>

\* x / (ref * 2 ** (1/6)): the rational x / ref, in units of 2 ** (-1/6)
OverSixthRootOfTwo(q) == [times |-> "2**(-1/6)", q |-> q]

\* a plain rational value
Plain(q) == [times |-> "1", q |-> q]

\* np.deg2rad(x): x in units of pi/180
deg2rad(x) == [times |-> "pi/180", q |-> Frac(x, 1)]

\* dihedral_type.phase > 0.0001, the phase being a whole number of degrees
PhaseIsNonZero(phase) == phase * 10000 > 1


(***************************************************************************)
(* The idioms shared by the _init_hoomd_* helpers                          *)
(***************************************************************************)
\* for e in entries: if e.key not in d: d[e.key] = e.val
\* The dict as the sequence of its items, in insertion order.
\* the dict written without the membership test: the last entry of a key stays
RECURSIVE DedupIntoOverwriting(_, _)
DedupIntoOverwriting(d, entries) ==
    IF entries = <<>> THEN d
    ELSE LET e == Head(entries) IN
         IF \E i \in 1..Len(d) : d[i].key = e.key
         THEN DedupIntoOverwriting(
                 [i \in 1..Len(d) |-> IF d[i].key = e.key THEN e ELSE d[i]],
                 Tail(entries))
         ELSE DedupIntoOverwriting(Append(d, e), Tail(entries))

RECURSIVE DedupInto(_, _)
DedupInto(d, entries) ==
    IF entries = <<>> THEN d
    ELSE LET e == Head(entries) IN
         IF \E i \in 1..Len(d) : d[i].key = e.key
         THEN DedupInto(d, Tail(entries))
         ELSE DedupInto(Append(d, e), Tail(entries))

DedupFirst(entries) == DedupInto(<<>>, entries)

\* sorted(names) of a set of strings
RECURSIVE SortedNames(_)
SortedNames(S) ==
    IF S = {} THEN <<>>
    ELSE LET m == CHOOSE x \in S : \A y \in S : StrLeq(x, y)
         IN <<m>> \o SortedNames(S \ {m})

\* itertools.combinations_with_replacement(names, 2), in its order
RECURSIVE CombinationsFrom(_, _, _)
CombinationsFrom(names, i, j) ==
    IF i > Len(names) THEN <<>>
    ELSE IF j > Len(names) THEN CombinationsFrom(names, i + 1, i + 1)
    ELSE <<(<<names[i], names[j]>>)>> \o CombinationsFrom(names, i, j + 1)

combinations_with_replacement(names) == CombinationsFrom(names, 1, 1)

\* d[key] of a deduplicated dict
Lookup(d, key) == (CHOOSE i \in 1..Len(d) : d[i].key = key)

(***************************************************************************)
(* _init_hoomd_lj                                                          *)
(***************************************************************************)
\* lines 108-111: the unique atom types, the first atom of a name decides
AtomTypeParams(s) ==
    DedupFirst([i \in 1..Len(s.atoms) |->
                  [key |-> s.atoms[i].type, val |-> s.atoms[i].atom_type]])

\* lines 115-118: lj.pair_coeff.set(name, name, ...) per unique type
LJSelfCalls(params, a) ==
    [i \in 1..Len(params) |->
        [a |-> params[i].key, b |-> params[i].key,
         sigma |-> Plain(Frac(params[i].val.sigma, a.ref_distance)),
         epsilon |-> Plain(Frac(params[i].val.epsilon, a.ref_energy))]]

\* lines 123-140: one turn of the cross-interaction loop.  The result is the
\* pair_coeff.set call, or the ValueError of an unsupported mixing rule.
LJCrossStep(params, pair, mixing_rule, a) ==
    LET t1 == params[Lookup(params, pair[1])].val
        t2 == params[Lookup(params, pair[2])].val
    IN  IF pair[2] \notin DOMAIN t1.nbfix
        THEN IF Lower(mixing_rule) = "lorentz"
             THEN [raised |-> FALSE,
                   call |-> [a |-> pair[1], b |-> pair[2],
                             sigma |-> Plain(Frac(t1.sigma + t2.sigma,
                                                  2 * a.ref_distance)),
                             epsilon |-> Plain(Frac(t1.epsilon * t2.epsilon,
                                                    a.ref_energy * a.ref_energy))]]
             ELSE [raised |-> TRUE, call |-> <<>>]
        ELSE [raised |-> FALSE,
              call |-> [a |-> pair[1], b |-> pair[2],
                        sigma |-> OverSixthRootOfTwo(
                                     Frac(t1.nbfix[pair[2]].rmin, a.ref_distance)),
                        epsilon |-> Plain(Frac(t1.nbfix[pair[2]].eps, a.ref_energy))]]

\* lines 122-140: the loop, stopped by the first raise
RECURSIVE LJCrossLoop(_, _, _, _, _)
LJCrossLoop(params, pairs, mixing_rule, a, calls) ==
    IF pairs = <<>> THEN [raised |-> "", calls |-> calls]
    ELSE LET r == LJCrossStep(params, Head(pairs), mixing_rule, a) IN
         IF r.raised THEN [raised |-> "ValueError", calls |-> calls]
         ELSE LJCrossLoop(params, Tail(pairs), mixing_rule, a,
                          Append(calls, r.call))

\* _init_hoomd_lj(structure, nl, mixing_rule=..., ref_distance=..., ref_energy=...)
InitHoomdLJ(s, mixing_rule, a) ==
    LET params == AtomTypeParams(s)
        names == SortedNames({params[i].key : i \in 1..Len(params)})
    IN  LJCrossLoop(params, combinations_with_replacement(names), mixing_rule, a,
                    LJSelfCalls(params, a))


(***************************************************************************)
(* Bonded entities.  An entity lists its atoms (indices into               *)
(* structure.atoms) and carries its type object.                           *)
(***************************************************************************)
\* entity.atom<k>.type
TypeName(s, e, k) == s.atoms[e.atoms[k]].type

\* the default r_cut=1.2 of _init_hoomd_14_pairs
RCut14 == Frac(12, 10)

(***************************************************************************)
(* _init_hoomd_14_pairs                                                    *)
(***************************************************************************)
\* line 169
Pair14Key(t1, t2) == Join(SortedPair(t1, t2))

\* lines 164-171
Params14(s) ==
    DedupFirst([i \in 1..Len(s.adjusts) |->
                  [key |-> Pair14Key(TypeName(s, s.adjusts[i], 1),
                                     TypeName(s, s.adjusts[i], 2)),
                   val |-> s.adjusts[i].type]])

\* lines 173-179
LJ14Calls(params, a) ==
    [i \in 1..Len(params) |->
        [name |-> params[i].key,
         sigma |-> Plain(Frac(params[i].val.sigma, a.ref_distance)),
         epsilon |-> Plain(Frac(params[i].val.epsilon, a.ref_energy)),
         alpha |-> Plain(Frac(1, 1)),
         r_cut |-> Plain(RCut14)]]

\* lines 180-182
QQ14Calls(params) ==
    [i \in 1..Len(params) |->
        [name |-> params[i].key,
         alpha |-> Plain(params[i].val.chgscale),
         r_cut |-> Plain(RCut14)]]

(***************************************************************************)
(* _init_hoomd_bonds                                                       *)
(***************************************************************************)
\* the bond key joined as listed, without the sort
BondKeyAsListed(t1, t2) == Join(<<t1, t2>>)

\* lines 192-194
BondKey(t1, t2) == Join(SortedPairByKey(t1, t2))

\* line 193: a bond with an untyped atom is passed over
BondIsTyped(t1, t2) ==
    LET p == SortedPairByKey(t1, t2) IN p[1] /= <<>> /\ p[2] /= <<>>

\* lines 189-196
BondTypeParams(s) ==
    LET Typed(b) == BondIsTyped(TypeName(s, b, 1), TypeName(s, b, 2))
        typed == SelectSeq(s.bonds, Typed)
    IN  DedupFirst([i \in 1..Len(typed) |->
                      [key |-> BondKey(TypeName(s, typed[i], 1),
                                       TypeName(s, typed[i], 2)),
                       val |-> typed[i].type]])

\* lines 200-203
BondCalls(params, a) ==
    [i \in 1..Len(params) |->
        [name |-> params[i].key,
         k |-> Plain(Frac(2 * params[i].val.k * a.ref_distance * a.ref_distance,
                          a.ref_energy)),
         r0 |-> Plain(Frac(params[i].val.req, a.ref_distance))]]

(***************************************************************************)
(* _init_hoomd_angles                                                      *)
(***************************************************************************)
\* lines 212-213: the outer types sorted, the central one kept
AngleTuple(t1, t2, t3) ==
    LET p == SortedPairByKey(t1, t3) IN <<p[1], t2, p[2]>>

\* line 214
AngleKey(t1, t2, t3) == Join(AngleTuple(t1, t2, t3))

\* lines 210-216
AngleTypeParams(s) ==
    DedupFirst([i \in 1..Len(s.angles) |->
                  [key |-> AngleKey(TypeName(s, s.angles[i], 1),
                                    TypeName(s, s.angles[i], 2),
                                    TypeName(s, s.angles[i], 3)),
                   val |-> s.angles[i].type]])

\* lines 220-223
AngleCalls(params, a) ==
    [i \in 1..Len(params) |->
        [name |-> params[i].key,
         t0 |-> deg2rad(params[i].val.theteq),
         k |-> Plain(Frac(2 * params[i].val.k, a.ref_energy))]]

(***************************************************************************)
(* _init_hoomd_dihedrals                                                   *)
(***************************************************************************)
\* lines 234-237
DihedralKey(t1, t2, t3, t4) ==
    IF <<t2, t3>> = SortedPairByKey(t2, t3)
    THEN Join(<<t1, t2, t3, t4>>)
    ELSE Join(<<t4, t3, t2, t1>>)

\* lines 230-239, over the dihedrals of structure.structure
DihedralTypeParams(s) ==
    LET ds == s.structure.dihedrals IN
    DedupFirst([i \in 1..Len(ds) |->
                  [key |-> DihedralKey(TypeName(s, ds[i], 1), TypeName(s, ds[i], 2),
                                       TypeName(s, ds[i], 3), TypeName(s, ds[i], 4)),
                   val |-> ds[i].type]])

\* lines 243-253: the loop over the unique types.  A type with a phase shift
\* reaches warnings.warn, whose message reads dihedral_type.phae: the
\* dihedral type has no such attribute and the AttributeError leaves the loop.
RECURSIVE DihedralLoop(_, _, _)
DihedralLoop(params, a, calls) ==
    IF params = <<>> THEN [raised |-> "", calls |-> calls]
    ELSE LET p == Head(params) IN
         IF PhaseIsNonZero(p.val.phase)
         THEN [raised |-> "AttributeError", calls |-> calls]
         ELSE DihedralLoop(Tail(params), a,
                  Append(calls, [name |-> p.key,
                                 k |-> Plain(Frac(2 * p.val.phi_k, a.ref_energy)),
                                 d |-> 1,
                                 n |-> p.val.per]))

(***************************************************************************)
(* _init_hoomd_rb_torsions                                                 *)
(***************************************************************************)
\* lines 264-267
RBTorsionKey(t1, t2, t3, t4) ==
    IF <<t2, t3>> = SortedPairByKey(t2, t3)
    THEN Join(<<t1, t2, t3, t4>>)
    ELSE Join(<<t4, t3, t2, t1>>)

\* lines 260-269
RBTorsionTypeParams(s) ==
    DedupFirst([i \in 1..Len(s.rb_torsions) |->
                  [key |-> RBTorsionKey(TypeName(s, s.rb_torsions[i], 1),
                                        TypeName(s, s.rb_torsions[i], 2),
                                        TypeName(s, s.rb_torsions[i], 3),
                                        TypeName(s, s.rb_torsions[i], 4)),
                   val |-> s.rb_torsions[i].type]])

\* mbuild.utils.conversion.RB_to_OPLS(c0, ..., c5): the fixed basis change
\* from Ryckaert-Bellemans to OPLS coefficients, kept as a term over its
\* arguments
RB_to_OPLS(c) == [opls_of |-> c]

\* lines 273-281
RBTorsionCalls(params, a) ==
    [i \in 1..Len(params) |->
        [name |-> params[i].key,
         F_coeffs |-> RB_to_OPLS([j \in 1..6 |->
                                    Frac(params[i].val.c[j], a.ref_energy)])]]


(***************************************************************************)
(* The inputs of the model                                                 *)
(***************************************************************************)
EmptyName == <<>>
TypeNames == {EmptyName, <<"a">>, <<"b">>, <<"a", "-", "b">>}
LJTypeNames == {<<"a">>, <<"b">>}
AngleTypeNames == TypeNames \ {EmptyName}
DihedralTypeNames == {<<"a">>, <<"b">>}
TorsionTypeNames == TypeNames \ {EmptyName}

RefValues == {1, 2}

\* an atom type's nbfix table: type name -> (rmin, eps)
NBFixTables ==
    UNION {[D -> {[rmin |-> 5, eps |-> 3]}] : D \in SUBSET LJTypeNames}

DefaultAtomType == [sigma |-> 1, epsilon |-> 1, nbfix |-> <<>>]
AtomTypes == [sigma : {3}, epsilon : {2}, nbfix : NBFixTables] \cup {DefaultAtomType}

AdjustTypes == {[sigma |-> 1, epsilon |-> 1, chgscale |-> Frac(1, 2)],
                [sigma |-> 3, epsilon |-> 2, chgscale |-> Frac(5, 6)]}
BondTypes == {[k |-> 1, req |-> 1], [k |-> 3, req |-> 2]}
AngleTypes == {[k |-> 1, theteq |-> 109], [k |-> 3, theteq |-> 120]}
DihedralTypes == {[phi_k |-> 1, per |-> 3, phase |-> 0],
                  [phi_k |-> 2, per |-> 2, phase |-> 180]}
RBTorsionTypes == {[c |-> <<1, 2, 0, 4, 0, 0>>], [c |-> <<2, 6, 1, 0, 0, 0>>]}

\* atoms of the given type names, carrying the default atom type
AtomsNamed(names) ==
    [i \in 1..Len(names) |-> [type |-> names[i], atom_type |-> DefaultAtomType]]

\* the lists of 1..MaxEntities entities over the given atom listings and types
EntityLists(listings, types) ==
    UNION {[1..n -> [atoms : listings, type : types]] : n \in 1..MaxEntities}

\* the type objects of a list of entities (structure.bond_types and the like)
TypesOf(entities) == {entities[i].type : i \in 1..Len(entities)}

NoStructureAttr == [present |-> FALSE, dihedrals |-> <<>>]

Structure(atoms, adjusts, bonds, angles, dihedrals, rb_torsions, inner) ==
    [kind |-> "parmed.Structure", atoms |-> atoms,
     adjusts |-> adjusts,
     bonds |-> bonds, bond_types |-> TypesOf(bonds),
     angles |-> angles, angle_types |-> TypesOf(angles),
     dihedrals |-> dihedrals, dihedral_types |-> TypesOf(dihedrals),
     rb_torsions |-> rb_torsions, rb_torsion_types |-> TypesOf(rb_torsions),
     structure |-> inner]

\* an object of another class: what it holds is never read
NotAStructure(kind) ==
    [kind |-> kind, atoms |-> <<>>, adjusts |-> <<>>,
     bonds |-> <<>>, bond_types |-> {}, angles |-> <<>>, angle_types |-> {},
     dihedrals |-> <<>>, dihedral_types |-> {},
     rb_torsions |-> <<>>, rb_torsion_types |-> {},
     structure |-> NoStructureAttr]

WrongObjects == {NotAStructure("mb.Compound"), NotAStructure("other")}

\* structures with non-bonded parameters only
LJStructures ==
    {Structure(atoms, <<>>, <<>>, <<>>, <<>>, <<>>, NoStructureAttr) :
        atoms \in UNION {[1..n -> [type : LJTypeNames, atom_type : AtomTypes]] :
                           n \in 0..MaxAtoms}}

\* two atoms and their 1-4 adjusts, listed either way round
AdjustStructures ==
    {Structure(AtomsNamed(names), adjusts, <<>>, <<>>, <<>>, <<>>, NoStructureAttr) :
        names \in [1..2 -> TypeNames],
        adjusts \in EntityLists({<<1, 2>>, <<2, 1>>}, AdjustTypes)}

BondStructures ==
    {Structure(AtomsNamed(names), <<>>, bonds, <<>>, <<>>, <<>>, NoStructureAttr) :
        names \in [1..2 -> TypeNames],
        bonds \in EntityLists({<<1, 2>>, <<2, 1>>}, BondTypes)}

AngleStructures ==
    {Structure(AtomsNamed(names), <<>>, <<>>, angles, <<>>, <<>>, NoStructureAttr) :
        names \in [1..3 -> AngleTypeNames],
        angles \in EntityLists({<<1, 2, 3>>, <<3, 2, 1>>}, AngleTypes)}

\* a plain parmed.Structure has no attribute `structure`; a subclass may
\* hold one, here the structure's own dihedral list
DihedralStructures ==
    {Structure(AtomsNamed(names), <<>>, <<>>, <<>>, dihedrals, <<>>, inner) :
        names \in [1..4 -> DihedralTypeNames],
        dihedrals \in EntityLists({<<1, 2, 3, 4>>, <<4, 3, 2, 1>>}, DihedralTypes),
        inner \in {NoStructureAttr}} \cup
    {Structure(AtomsNamed(names), <<>>, <<>>, <<>>, dihedrals, <<>>,
               [present |-> TRUE, dihedrals |-> dihedrals]) :
        names \in [1..4 -> DihedralTypeNames],
        dihedrals \in EntityLists({<<1, 2, 3, 4>>, <<4, 3, 2, 1>>}, DihedralTypes)}

RBTorsionStructures ==
    {Structure(AtomsNamed(names), <<>>, <<>>, <<>>, <<>>, rbs, NoStructureAttr) :
        names \in [1..4 -> TorsionTypeNames],
        rbs \in EntityLists({<<1, 2, 3, 4>>, <<4, 3, 2, 1>>}, RBTorsionTypes)}

DefaultArgs == [ref_distance |-> 1, ref_energy |-> 1, mixing_rule |-> "lorentz"]

\* the calls of the model: (structure, keyword arguments)
Calls ==
    (WrongObjects \X {DefaultArgs}) \cup
    (LJStructures \X
        [ref_distance : RefValues, ref_energy : RefValues,
         mixing_rule : MixingRules]) \cup
    ((AdjustStructures \cup BondStructures) \X
        [ref_distance : RefValues, ref_energy : RefValues,
         mixing_rule : {"lorentz"}]) \cup
    ((AngleStructures \cup DihedralStructures \cup RBTorsionStructures) \X
        [ref_distance : {1}, ref_energy : RefValues, mixing_rule : {"lorentz"}])

(***************************************************************************)
(* The engine                                                              *)
(***************************************************************************)
\* no hoomd call made yet
FreshEngine ==
    [calls |-> <<>>, exclusions |-> <<>>, lj |-> <<>>, lj14 |-> <<>>,
     qq14 |-> <<>>, bond |-> <<>>, angle |-> <<>>, dihedral |-> <<>>,
     opls |-> <<>>]

\* no load_hoomdxml call under way
XmlIdle ==
    [file |-> [valid |-> FALSE, n_positions |-> 0, nodes |-> {}],
     optional_nodes |-> FALSE, pc |-> "idle", bound |-> {},
     optional_data |-> {}, columns |-> {}, outcome |-> "idle", bonds |-> "None"]

Init ==
    /\ \E c \in Calls : structure = c[1] /\ args = c[2]
    /\ pc = "validate"
    /\ hoomd = FreshEngine
    /\ outcome = "running"
    /\ xml = XmlIdle


(***************************************************************************)
(* create_hoomd_simulation, step by step                                   *)
(***************************************************************************)
\* isinstance(structure, mb.Compound), isinstance(structure, pmd.Structure)
IsCompound(s) == s.kind = "mb.Compound"
IsStructure(s) == s.kind = "parmed.Structure"

\* the check of lines 57-64 alone, without the elif of lines 65-67
AcceptedUnlessCompound(s) == ~IsCompound(s)

\* lines 57-67: the object is accepted
Accepted(s) == ~IsCompound(s) /\ IsStructure(s)

\* line 79: the mixing rule handed to _init_hoomd_lj
MixingRulePassed(a) == "lorentz"

Raise(exception) ==
    /\ outcome' = exception
    /\ pc' = "done"

Called(names) == [hoomd EXCEPT !.calls = hoomd.calls \o names]

\* lines 57-67
Validate ==
    /\ pc = "validate"
    /\ IF Accepted(structure)
       THEN pc' = "context" /\ outcome' = outcome
       ELSE Raise("ValueError")
    /\ UNCHANGED <<structure, args, hoomd, xml>>

\* lines 68-75
CreateContext ==
    /\ pc = "context"
    /\ hoomd' = [Called(<<"context.initialize", "to_hoomdsnapshot",
                          "init.read_snapshot", "md.nlist.cell",
                          "nlist.reset_exclusions">>)
                    EXCEPT !.exclusions = <<"1-2", "1-3">>]
    /\ pc' = "lj"
    /\ UNCHANGED <<structure, args, outcome, xml>>

\* lines 77-80
ProcessLJ ==
    /\ pc = "lj"
    /\ IF structure.atoms = <<>>
       THEN Raise("IndexError") /\ hoomd' = hoomd
       ELSE IF structure.atoms[1].type = EmptyName
       THEN pc' = "pairs14" /\ UNCHANGED <<hoomd, outcome>>
       ELSE LET r == InitHoomdLJ(structure, MixingRulePassed(args), args) IN
            /\ hoomd' = [Called(<<"md.pair.lj">>) EXCEPT !.lj = r.calls]
            /\ IF r.raised = ""
               THEN pc' = "qq" /\ outcome' = outcome
               ELSE Raise(r.raised)
    /\ UNCHANGED <<structure, args, xml>>

\* line 81 and _init_hoomd_qq, lines 146-149
ProcessQQ ==
    /\ pc = "qq"
    /\ hoomd' = Called(<<"group.charged", "md.charge.pppm", "pppm.set_params">>)
    /\ pc' = "pairs14"
    /\ UNCHANGED <<structure, args, outcome, xml>>

\* lines 82-85 and _init_hoomd_14_pairs, lines 160-184
Process14Pairs ==
    /\ pc = "pairs14"
    /\ IF structure.adjusts /= <<>>
       THEN LET params == Params14(structure) IN
            hoomd' = [Called(<<"nlist.reset_exclusions", "md.special_pair.lj",
                               "md.special_pair.coulomb">>)
                         EXCEPT !.exclusions = <<"1-2", "1-3", "1-4">>,
                                !.lj14 = LJ14Calls(params, args),
                                !.qq14 = QQ14Calls(params)]
       ELSE hoomd' = hoomd
    /\ pc' = "bonds"
    /\ UNCHANGED <<structure, args, outcome, xml>>

\* lines 86-89 and _init_hoomd_bonds, lines 189-205
ProcessBonds ==
    /\ pc = "bonds"
    /\ IF structure.bond_types /= {}
       THEN hoomd' = [Called(<<"md.bond.harmonic">>)
                         EXCEPT !.bond = BondCalls(BondTypeParams(structure), args)]
       ELSE hoomd' = hoomd
    /\ pc' = "angles"
    /\ UNCHANGED <<structure, args, outcome, xml>>

\* lines 90-93 and _init_hoomd_angles, lines 210-225
ProcessAngles ==
    /\ pc = "angles"
    /\ IF structure.angle_types /= {}
       THEN hoomd' = [Called(<<"md.angle.harmonic">>)
                         EXCEPT !.angle = AngleCalls(AngleTypeParams(structure), args)]
       ELSE hoomd' = hoomd
    /\ pc' = "dihedrals"
    /\ UNCHANGED <<structure, args, outcome, xml>>

\* lines 94-97 and _init_hoomd_dihedrals, lines 230-255.  Line 231 reads
\* structure.structure, which a plain parmed.Structure does not have.
ProcessDihedrals ==
    /\ pc = "dihedrals"
    /\ IF structure.dihedral_types = {}
       THEN pc' = "rb_torsions" /\ UNCHANGED <<hoomd, outcome>>
       ELSE IF ~structure.structure.present
       THEN Raise("AttributeError") /\ hoomd' = hoomd
       ELSE LET r == DihedralLoop(DihedralTypeParams(structure), args, <<>>) IN
            /\ hoomd' = [Called(<<"md.dihedral.harmonic">>)
                            EXCEPT !.dihedral = r.calls]
            /\ IF r.raised = ""
               THEN pc' = "rb_torsions" /\ outcome' = outcome
               ELSE Raise(r.raised)
    /\ UNCHANGED <<structure, args, xml>>

\* lines 98-101 and _init_hoomd_rb_torsions, lines 260-283
ProcessRBTorsions ==
    /\ pc = "rb_torsions"
    /\ IF structure.rb_torsion_types /= {}
       THEN hoomd' = [Called(<<"md.dihedral.opls">>)
                         EXCEPT !.opls = RBTorsionCalls(
                                            RBTorsionTypeParams(structure), args)]
       ELSE hoomd' = hoomd
    /\ pc' = "return"
    /\ UNCHANGED <<structure, args, outcome, xml>>

\* line 102
Return ==
    /\ pc = "return"
    /\ pc' = "done"
    /\ outcome' = "returned"
    /\ UNCHANGED <<structure, args, hoomd, xml>>

Next ==
    \/ Validate
    \/ CreateContext
    \/ ProcessLJ
    \/ ProcessQQ
    \/ Process14Pairs
    \/ ProcessBonds
    \/ ProcessAngles
    \/ ProcessDihedrals
    \/ ProcessRBTorsions
    \/ Return

Spec == Init /\ [][Next]_vars


(***************************************************************************)
(* hoomdxml.load_hoomdxml, as Python 2 runs it (the module's print         *)
(* statements are Python 2 syntax)                                         *)
(***************************************************************************)
\* lines 58-59
per_particle_nodes ==
    {"image", "velocity", "acceleration", "mass", "diameter", "charge",
     "body", "orientation", "moment_inertia"}

\* lines 74-75
multi_particle_nodes == {"bond", "angle", "dihedral", "improper"}

\* the files of the model: whether the required nodes (box, position, type)
\* are there, the particles listed, and the optional nodes present, each
\* well formed
XmlFiles ==
    [valid : BOOLEAN, n_positions : 0..MaxParticles,
     nodes : {N \in SUBSET (per_particle_nodes \cup multi_particle_nodes) :
                 Cardinality(N) <= MaxNodes}]

InitXml ==
    /\ structure = NotAStructure("other")
    /\ args = DefaultArgs
    /\ pc = "idle"
    /\ hoomd = FreshEngine
    /\ outcome = "idle"
    /\ \E f \in XmlFiles, o \in BOOLEAN :
          xml = [XmlIdle EXCEPT !.file = f, !.optional_nodes = o,
                                !.pc = "required", !.outcome = "running"]

XmlRaise(exception) == [xml EXCEPT !.outcome = exception, !.pc = "done"]

\* lines 27-51: config.find('box') is None without a box node; the loop
\* variable n stays unbound when <position> lists no particle
LoadRequired ==
    /\ xml.pc = "required"
    /\ xml' = IF ~xml.file.valid THEN XmlRaise("AttributeError")
              ELSE IF xml.file.n_positions = 0 THEN XmlRaise("UnboundLocalError")
              ELSE [xml EXCEPT !.pc = "optional", !.bound = {"n"}]
    /\ UNCHANGED <<structure, args, pc, hoomd, outcome>>

\* lines 60-71: the per-particle nodes found; a missing one raises the
\* AttributeError that is caught and passed
PerParticleColumns(file) == file.nodes \cap per_particle_nodes

\* lines 70-88: the keys of optional_data
OptionalDataKeys(file) ==
    (IF PerParticleColumns(file) /= {} THEN {"per_particle"} ELSE {})
    \cup (file.nodes \cap multi_particle_nodes)

\* lines 53-88: optional_data and per_particle_df are bound only here
LoadOptional ==
    /\ xml.pc = "optional"
    /\ xml' = IF xml.optional_nodes
              THEN [xml EXCEPT !.pc = "found",
                               !.bound = @ \cup {"optional_data", "per_particle_df"},
                               !.columns = PerParticleColumns(xml.file),
                               !.optional_data = OptionalDataKeys(xml.file)]
              ELSE [xml EXCEPT !.pc = "found"]
    /\ UNCHANGED <<structure, args, pc, hoomd, outcome>>

\* lines 93-96: optional_data.keys() and per_particle_df.columns are read
\* whatever optional_nodes is
ReportFound ==
    /\ xml.pc = "found"
    /\ xml' = IF {"optional_data", "per_particle_df"} \subseteq xml.bound
              THEN [xml EXCEPT !.pc = "build"]
              ELSE XmlRaise("UnboundLocalError")
    /\ UNCHANGED <<structure, args, pc, hoomd, outcome>>

\* lines 98-112
BuildTrajectory ==
    /\ xml.pc = "build"
    /\ xml' = IF "optional_data" \notin xml.bound THEN XmlRaise("UnboundLocalError")
              ELSE [xml EXCEPT !.pc = "return",
                               !.bonds = IF "bond" \in xml.optional_data
                                         THEN "id0,id1" ELSE "None"]
    /\ UNCHANGED <<structure, args, pc, hoomd, outcome>>

\* lines 113-115
ReturnTrajectory ==
    /\ xml.pc = "return"
    /\ xml' = [xml EXCEPT !.pc = "done",
                          !.outcome = IF xml.optional_nodes
                                      THEN "returned (traj, optional_data)"
                                      ELSE "returned traj"]
    /\ UNCHANGED <<structure, args, pc, hoomd, outcome>>

NextXml ==
    \/ LoadRequired
    \/ LoadOptional
    \/ ReportFound
    \/ BuildTrajectory
    \/ ReturnTrajectory

SpecXml == InitXml /\ [][NextXml]_vars


(***************************************************************************)
(* Properties                                                              *)
(***************************************************************************)
\* the type names of an entity, in its listing and in the reversed listing
Listed(s, e) == [k \in 1..Len(e.atoms) |-> TypeName(s, e, k)]
Reversed(t) == [k \in 1..Len(t) |-> t[Len(t) + 1 - k]]

\* the names a coefficient table was set for
NamesSet(table) == {table[i].name : i \in 1..Len(table)}

\* C1: create_hoomd_simulation rejects an mb.Compound and every object that
\* is not a parmed.Structure with ValueError, and no engine call has been
\* made when it does: the engine state is the one before the call.
C1_RejectsWrongObject ==
    (IsCompound(structure) \/ ~IsStructure(structure)) =>
        /\ pc \in {"validate", "done"}
        /\ pc = "done" => outcome = "ValueError"
        /\ hoomd = FreshEngine

\* C1 witness: an mb.Compound was passed and the call has ended in ValueError
C1_Witness ==
    /\ IsCompound(structure)
    /\ pc = "done"
    /\ outcome = "ValueError"

\* C2: the key of a periodic dihedral and of an RB torsion with atom types
\* (t1, t2, t3, t4) is the key of the reversed listing (t4, t3, t2, t1),
\* for all type names, t2 = t3 with t1 /= t4 included.
C2_DihedralKeysCanonical ==
    pc = "return" =>
        /\ \A i \in 1..Len(structure.structure.dihedrals) :
              LET t == Listed(structure, structure.structure.dihedrals[i]) IN
              DihedralKey(t[1], t[2], t[3], t[4])
                  = DihedralKey(t[4], t[3], t[2], t[1])
        /\ \A i \in 1..Len(structure.rb_torsions) :
              LET t == Listed(structure, structure.rb_torsions[i]) IN
              RBTorsionKey(t[1], t[2], t[3], t[4])
                  = RBTorsionKey(t[4], t[3], t[2], t[1])

FirstWithKey(keys, key) ==
    CHOOSE i \in DOMAIN keys :
        /\ keys[i] = key
        /\ \A j \in DOMAIN keys : keys[j] = key => i <= j

\* a table holds exactly one call per key of `keys`
OncePerKey(table, keys) ==
    /\ NamesSet(table) = {keys[i] : i \in DOMAIN keys}
    /\ \A i, j \in 1..Len(table) : table[i].name = table[j].name => i = j

\* the keys the helpers give the entities of the structure
KeysOfBonds(s) ==
    LET typed == {i \in 1..Len(s.bonds) :
                     Listed(s, s.bonds[i])[1] /= EmptyName
                     /\ Listed(s, s.bonds[i])[2] /= EmptyName}
    IN  [i \in typed |-> BondKey(Listed(s, s.bonds[i])[1], Listed(s, s.bonds[i])[2])]
KeysOfAngles(s) ==
    [i \in 1..Len(s.angles) |->
        LET t == Listed(s, s.angles[i]) IN AngleKey(t[1], t[2], t[3])]
KeysOfRBTorsions(s) ==
    [i \in 1..Len(s.rb_torsions) |->
        LET t == Listed(s, s.rb_torsions[i]) IN RBTorsionKey(t[1], t[2], t[3], t[4])]
KeysOfAdjusts(s) ==
    [i \in 1..Len(s.adjusts) |->
        LET t == Listed(s, s.adjusts[i]) IN Pair14Key(t[1], t[2])]

\* C4: _init_hoomd_bonds, _init_hoomd_angles, _init_hoomd_rb_torsions and
\* _init_hoomd_14_pairs call the coefficient setter exactly once per distinct
\* key of the list, with the parameters of the first entity of the list that
\* has the key (a bond with an untyped atom is given no key).
C4_DedupFirstWins ==
    pc = "return" =>
        /\ OncePerKey(hoomd.bond, KeysOfBonds(structure))
        /\ \A c \in 1..Len(hoomd.bond) :
              LET ty == structure.bonds[FirstWithKey(KeysOfBonds(structure),
                                                     hoomd.bond[c].name)].type
              IN  /\ hoomd.bond[c].k =
                        Plain(Frac(2 * ty.k * args.ref_distance * args.ref_distance,
                                   args.ref_energy))
                  /\ hoomd.bond[c].r0 = Plain(Frac(ty.req, args.ref_distance))
        /\ OncePerKey(hoomd.angle, KeysOfAngles(structure))
        /\ \A c \in 1..Len(hoomd.angle) :
              LET ty == structure.angles[FirstWithKey(KeysOfAngles(structure),
                                                      hoomd.angle[c].name)].type
              IN  /\ hoomd.angle[c].t0 = deg2rad(ty.theteq)
                  /\ hoomd.angle[c].k = Plain(Frac(2 * ty.k, args.ref_energy))
        /\ OncePerKey(hoomd.opls, KeysOfRBTorsions(structure))
        /\ \A c \in 1..Len(hoomd.opls) :
              LET ty == structure.rb_torsions[
                            FirstWithKey(KeysOfRBTorsions(structure),
                                         hoomd.opls[c].name)].type
              IN  hoomd.opls[c].F_coeffs =
                      RB_to_OPLS([j \in 1..6 |-> Frac(ty.c[j], args.ref_energy)])
        /\ OncePerKey(hoomd.lj14, KeysOfAdjusts(structure))
        /\ OncePerKey(hoomd.qq14, KeysOfAdjusts(structure))
        /\ \A c \in 1..Len(hoomd.lj14) :
              LET ty == structure.adjusts[FirstWithKey(KeysOfAdjusts(structure),
                                                       hoomd.lj14[c].name)].type
              IN  /\ hoomd.lj14[c].sigma = Plain(Frac(ty.sigma, args.ref_distance))
                  /\ hoomd.lj14[c].epsilon = Plain(Frac(ty.epsilon, args.ref_energy))
        /\ \A c \in 1..Len(hoomd.qq14) :
              LET ty == structure.adjusts[FirstWithKey(KeysOfAdjusts(structure),
                                                       hoomd.qq14[c].name)].type
              IN  hoomd.qq14[c].alpha = Plain(ty.chgscale)

\* C4 witness: two bonds of the same key carry different bond types, and
\* the bond coefficients were set once
C4_Witness ==
    /\ pc = "return"
    /\ Len(structure.bonds) = 2
    /\ DOMAIN KeysOfBonds(structure) = {1, 2}
    /\ KeysOfBonds(structure)[1] = KeysOfBonds(structure)[2]
    /\ structure.bonds[1].type /= structure.bonds[2].type
    /\ Len(hoomd.bond) = 1

\* a pair (a1, a2) of the structure's type names, a1 <= a2, for which the
\* type of a1 holds no nbfix entry
HasPairWithoutNBFix(s) ==
    \E i, j \in 1..Len(s.atoms) :
        /\ StrLeq(s.atoms[i].type, s.atoms[j].type)
        /\ s.atoms[j].type \notin
              DOMAIN AtomTypeParams(s)[Lookup(AtomTypeParams(s),
                                              s.atoms[i].type)].val.nbfix

\* C5: the mixing rule the caller passes is the one _init_hoomd_lj applies:
\* a call with a mixing rule other than 'lorentz' (whatever the case) on a
\* typed structure with a type pair without NBfix ends in ValueError.
C5_MixingRuleApplied ==
    (/\ pc = "done"
     /\ IsStructure(structure)
     /\ structure.atoms /= <<>>
     /\ structure.atoms[1].type /= EmptyName
     /\ Lower(args.mixing_rule) /= "lorentz"
     /\ HasPairWithoutNBFix(structure))
    => outcome = "ValueError"

\* the pair coefficient in force for (a, b): the last one set for the pair
LJInForce(table, a, b) ==
    LET hits == {i \in 1..Len(table) : {table[i].a, table[i].b} = {a, b}}
    IN  table[CHOOSE i \in hits : \A j \in hits : j <= i]

\* C6: once _init_hoomd_lj has returned, the pair coefficient in force for
\* (name, name) of every type name without an NBfix entry with itself is
\* sigma = atom_type.sigma / ref_distance, epsilon = atom_type.epsilon /
\* ref_energy: the value of the self-interaction loop.
C6_SelfInteractionKept ==
    pc = "qq" =>
        \A i \in 1..Len(structure.atoms) :
            LET name == structure.atoms[i].type
                ty == AtomTypeParams(structure)[
                          Lookup(AtomTypeParams(structure), name)].val
                c == LJInForce(hoomd.lj, name, name)
            IN  name \notin DOMAIN ty.nbfix =>
                    /\ c.sigma = Plain(Frac(ty.sigma, args.ref_distance))
                    /\ c.epsilon = Plain(Frac(ty.epsilon, args.ref_energy))

\* C7: once _init_hoomd_lj has returned, for every pair of type names
\* (a, b) where the nbfix table of either type holds an entry for the other,
\* the pair coefficient in force is the one of the NBfix entry, not the one
\* of the mixing rule.
C7_NBFixUsedEitherWay ==
    pc = "qq" =>
        \A i, j \in 1..Len(structure.atoms) :
            LET a == structure.atoms[i].type
                b == structure.atoms[j].type
                ty == AtomTypeParams(structure)[
                          Lookup(AtomTypeParams(structure), a)].val
                c == LJInForce(hoomd.lj, a, b)
            IN  b \in DOMAIN ty.nbfix =>
                    /\ c.sigma = OverSixthRootOfTwo(
                                    Frac(ty.nbfix[b].rmin, args.ref_distance))
                    /\ c.epsilon = Plain(Frac(ty.nbfix[b].eps, args.ref_energy))

\* C8: with a dihedral type of non-zero phase shift, _init_hoomd_dihedrals
\* sets no coefficient for that type, sets k = 2*phi_k/ref_energy, d = 1,
\* n = per for every other unique type, and returns without raising.
C8_PhaseShiftIgnored ==
    (/\ pc = "done"
     /\ structure.structure.present
     /\ \E ty \in structure.dihedral_types : PhaseIsNonZero(ty.phase))
    => /\ outcome = "returned"
       /\ \A i \in 1..Len(DihedralTypeParams(structure)) :
             LET u == DihedralTypeParams(structure)[i] IN
             IF PhaseIsNonZero(u.val.phase)
             THEN u.key \notin NamesSet(hoomd.dihedral)
             ELSE \E c \in 1..Len(hoomd.dihedral) :
                     hoomd.dihedral[c] =
                        [name |-> u.key,
                         k |-> Plain(Frac(2 * u.val.phi_k, args.ref_energy)),
                         d |-> 1, n |-> u.val.per]

\* C9: on a valid file load_hoomdxml(optional_nodes=False) returns the
\* trajectory alone without raising; with optional_nodes=True it returns
\* (traj, optional_data), a missing optional node being absent from
\* optional_data.
C9_LoadReturnsTrajectory ==
    (/\ xml.pc = "done"
     /\ xml.file.valid
     /\ xml.file.n_positions > 0)
    => IF xml.optional_nodes
       THEN /\ xml.outcome = "returned (traj, optional_data)"
            /\ xml.optional_data \cap multi_particle_nodes
                   = xml.file.nodes \cap multi_particle_nodes
            /\ xml.columns = xml.file.nodes \cap per_particle_nodes
       ELSE xml.outcome = "returned traj"

=============================================================================
